---- MODULE Spec2Model ----
(***************************************************************************)
(* Model of scripts/build.py: the semantic-version gate (SemVersion),      *)
(* the version record (SemVerFile) and the release run (main).             *)
(*                                                                         *)
(* A Python str is a sequence of characters; a character is a one-symbol   *)
(* TLA+ string.  U+0663 stands for   one non-ASCII decimal digit           *)
(* (ARABIC-INDIC DIGIT THREE), which \d matches in a str pattern.          *)
(***************************************************************************)
EXTENDS Integers, Sequences, FiniteSets, TLC

VARIABLES record, startRecord, tag, bump, current, pc, verdict, ops

vars == <<record, startRecord, tag, bump, current, pc, verdict, ops>>

(***************************************************************************)
(* Bounds                                                                   *)
(***************************************************************************)
\* longest raw string given to is_valid in SpecParse
MaxLen == 7
\* version components of SpecPolicy range over 0..MaxComp and BigComp
MaxComp == 2
\* one two-digit component value
BigComp == 10
\* version components of the release runs (Spec) range over 0..MainComp
MainComp == 1

(***************************************************************************)
(* Characters and str helpers                                               *)
(***************************************************************************)
NL == "\n"
UDigit == "U+0663"
AsciiDigits == {"0", "1", "2", "3", "4", "5", "6", "7", "8", "9"}
NonZeroDigits == AsciiDigits \ {"0"}

\* the class \d of a str (Unicode) pattern
IsDigit(c) == c \in AsciiDigits \cup {UDigit}

\* str.isspace(), as used by int() and str.strip()
IsSpace(c) == c \in {NL, " "}

DigitVal(c) ==
  CASE c = "0" -> 0 [] c = "1" -> 1 [] c = "2" -> 2 [] c = "3" -> 3
    [] c = "4" -> 4 [] c = "5" -> 5 [] c = "6" -> 6 [] c = "7" -> 7
    [] c = "8" -> 8 [] c = "9" -> 9 [] c = UDigit -> 3

(***************************************************************************)
(* SemVersion.is_valid: re.match of ^(G)\.(G)\.(G)$ with G = 0|[1-9]\d*     *)
(***************************************************************************)
\* positions at which a match of (0|[1-9]\d*) starting at position i can end
\* (the position of the next unread character); the set is the matcher's
\* backtracking choices
GroupEnds(s, i) ==
  IF i > Len(s) THEN {}
  ELSE IF s[i] = "0" THEN {i + 1}
  ELSE IF s[i] \in NonZeroDigits
    THEN {j \in (i + 1)..(Len(s) + 1) : \A k \in (i + 1)..(j - 1) : IsDigit(s[k])}
  ELSE {}

\* positions after a literal dot read at one of the positions ps
DotEnds(s, ps) == {p + 1 : p \in {q \in ps : q <= Len(s) /\ s[q] = "."}}

\* the anchor $ without re.MULTILINE: at the end of the string, or just before a
\* newline that is the last character of the string
DollarAt(s, p) == p = Len(s) + 1 \/ (p = Len(s) /\ s[p] = NL)

GroupsEnds(s, ps) == UNION {GroupEnds(s, p) : p \in ps}

is_valid(raw) ==
  LET e1 == GroupEnds(raw, 1)
      e2 == GroupsEnds(raw, DotEnds(raw, e1))
      e3 == GroupsEnds(raw, DotEnds(raw, e2))
  IN \E p \in e3 : DollarAt(raw, p)

(***************************************************************************)
(* SemVersion.parse: raw.split on the dot and int() of each part            *)
(***************************************************************************)
RECURSIVE Split(_)
\* str.split on the dot: the parts between the dots
Split(s) ==
  IF \A i \in 1..Len(s) : s[i] # "." THEN <<s>>
  ELSE LET k == CHOOSE i \in 1..Len(s) : s[i] = "." /\ \A j \in 1..(i - 1) : s[j] # "."
       IN <<SubSeq(s, 1, k - 1)>> \o Split(SubSeq(s, k + 1, Len(s)))

RECURSIVE Strip(_)
\* str.strip(): without leading and trailing whitespace
Strip(s) ==
  IF s = <<>> THEN s
  ELSE IF IsSpace(s[1]) THEN Strip(Tail(s))
  ELSE IF IsSpace(s[Len(s)]) THEN Strip(SubSeq(s, 1, Len(s) - 1))
  ELSE s

RECURSIVE DigitsValue(_)
DigitsValue(s) ==
  IF s = <<>> THEN 0
  ELSE 10 * DigitsValue(SubSeq(s, 1, Len(s) - 1)) + DigitVal(s[Len(s)])

\* whether int(s) returns: surrounding whitespace ignored, an optional sign,
\* then at least one digit
IntOk(s) ==
  LET t == Strip(s)
      d == IF t # <<>> /\ t[1] \in {"-", "+"} THEN Tail(t) ELSE t
  IN d # <<>> /\ \A i \in 1..Len(d) : IsDigit(d[i])

\* the value of int(s) when it returns
IntVal(s) ==
  LET t == Strip(s)
  IN IF t[1] = "-" THEN 0 - DigitsValue(Tail(t))
     ELSE IF t[1] = "+" THEN DigitsValue(Tail(t))
     ELSE DigitsValue(t)

\* SemVersion.parse: the tuple (major, minor, patch), or the way it fails
parse(raw) ==
  LET parsed == Split(raw)
  IN IF Len(parsed) # 3 THEN [err |-> "FormatError", v |-> <<>>]
     ELSE IF \E i \in 1..3 : ~IntOk(parsed[i]) THEN [err |-> "ValueError", v |-> <<>>]
     ELSE [err |-> "none",
           v |-> <<IntVal(parsed[1]), IntVal(parsed[2]), IntVal(parsed[3])>>]

(***************************************************************************)
(* SemVersion.validate_semver_change                                        *)
(***************************************************************************)
Bumps == {"major", "minor", "patch"}

\* current_version.raw == new_version.raw
SameRaw(cur, new) == cur = new

\* cmaj == nmaj and cmin == cmin
PatchPre(c, n) == c[1] = n[1] /\ c[2] = c[2]

\* a minor check that looks at the current patch
MinorPreCurrentPatch(c, n) == c[1] = n[1] /\ c[3] = 0

\* cmaj == nmaj and npatch == 0
MinorPre(c, n) == c[1] = n[1] /\ n[3] = 0

\* a major check that looks at the proposed minor
MajorPreProposedMinor(c, n) == n[2] = 0 /\ n[3] = 0

\* cmin == 0 and npatch == 0
MajorPre(c, n) == c[2] = 0 /\ n[3] = 0

\* an increment check that accepts any increase
IncrementAny(cold, cnew) == cold < cnew

\* cold + 1 == cnew
IncrementOk(cold, cnew) == cold + 1 = cnew

\* the branch of the declared bump kind: whether its precondition holds, and
\* the pair (cold, cnew) it selects; cold and cnew stay 0 for any other kind
BumpBranch(version, c, n) ==
  IF version = "patch" THEN [pre |-> PatchPre(c, n), cold |-> c[3], cnew |-> n[3]]
  ELSE IF version = "minor" THEN [pre |-> MinorPre(c, n), cold |-> c[2], cnew |-> n[2]]
  ELSE IF version = "major" THEN [pre |-> MajorPre(c, n), cold |-> c[1], cnew |-> n[1]]
  ELSE [pre |-> TRUE, cold |-> 0, cnew |-> 0]

\* the outcome of validate_semver_change: Ok when it returns, else the exit
validate_semver_change(cur, new, version) ==
  IF SameRaw(cur, new) THEN "NoChange"
  ELSE LET c == parse(cur)
           n == parse(new)
       IN IF c.err # "none" THEN c.err
          ELSE IF n.err # "none" THEN n.err
          ELSE LET b == BumpBranch(version, c.v, n.v)
               IN IF ~b.pre THEN "InvalidBumpPreconditions"
                  ELSE IF ~IncrementOk(b.cold, b.cnew) THEN "NonSequentialIncrement"
                  ELSE "Ok"

(***************************************************************************)
(* SemVerFile: the version record version.txt                               *)
(***************************************************************************)
RECURSIVE ReadLines(_)
\* f.readlines(): the lines of the text, each with its newline
ReadLines(text) ==
  IF text = <<>> THEN <<>>
  ELSE IF \A i \in 1..Len(text) : text[i] # NL THEN <<text>>
  ELSE LET k == CHOOSE i \in 1..Len(text) : text[i] = NL /\ \A j \in 1..(i - 1) : text[j] # NL
       IN <<SubSeq(text, 1, k)>> \o ReadLines(SubSeq(text, k + 1, Len(text)))

File(text) == [exists |-> TRUE, text |-> text]
NoFile == [exists |-> FALSE, text |-> <<>>]

(***************************************************************************)
(* Inputs: the tags given on the command line, the texts of version.txt     *)
(***************************************************************************)
DigitChar(d) == CHOOSE c \in AsciiDigits : DigitVal(c) = d

RECURSIVE Str(_)
\* the decimal text of a natural number
Str(n) == IF n < 10 THEN <<DigitChar(n)>> ELSE Str(n \div 10) \o <<DigitChar(n % 10)>>

Render(a, b, c) == Str(a) \o <<".">> \o Str(b) \o <<".">> \o Str(c)

RenderAll(comps) == {Render(a, b, c) : a \in comps, b \in comps, c \in comps}

\* texts that are no version: empty, two components, a leading zero,
\* a leading newline
Malformed == {<<>>, <<"1", ".", "0">>, <<"0", "1", ".", "0", ".", "0">>,
              <<NL, "0", ".", "0", ".", "1">>}

\* --tag values of the release runs
Tags == RenderAll(0..MainComp) \cup {Render(0, 0, 1) \o <<NL>>} \cup Malformed

\* --version values: argparse takes any string
Versions == Bumps \cup {"other"}

\* version.txt before the first run: missing, a version with or without a
\* final newline, two lines, or no version
Records ==
  {NoFile}
  \cup {File(t) : t \in RenderAll(0..MainComp)}
  \cup {File(t \o <<NL>>) : t \in RenderAll(0..MainComp)}
  \cup {File(Render(0, 0, 1) \o <<NL>> \o Render(0, 0, 0))}
  \cup {File(t) : t \in Malformed}

(***************************************************************************)
(* main: one release run, step by step                                      *)
(***************************************************************************)
Op(name, ok) == [op |-> name, ok |-> ok]

Exit(kind) == pc' = "exited" /\ verdict' = kind

Init ==
  /\ record \in Records
  /\ startRecord = record
  /\ tag = <<>>
  /\ bump = "patch"
  /\ current = <<>>
  /\ pc = "idle"
  /\ verdict = "none"
  /\ ops = <<>>

\* CmdArgs.get_cmd_args, at the start of a run of the script
GetCmdArgs ==
  /\ pc \in {"idle", "exited"}
  /\ \E t \in Tags, v \in Versions :
       /\ tag' = t
       /\ bump' = v
       /\ IF v \notin Bumps THEN Exit("BadArgs")
          ELSE pc' = "load" /\ verdict' = "none"
  /\ startRecord' = record
  /\ current' = <<>>
  /\ ops' = <<>>
  /\ UNCHANGED record

\* SemVerFile.get_current_sem_ver
GetCurrentSemVer ==
  /\ pc = "load"
  /\ IF ~record.exists \/ Len(ReadLines(record.text)) # 1
       THEN Exit("StoreError") /\ UNCHANGED current
       ELSE /\ current' = ReadLines(record.text)[1]
            /\ pc' = "check_current"
            /\ UNCHANGED verdict
  /\ UNCHANGED <<record, startRecord, tag, bump, ops>>

\* main: current_version.is_valid()
CheckCurrent ==
  /\ pc = "check_current"
  /\ IF is_valid(current) THEN pc' = "check_tag" /\ UNCHANGED verdict
     ELSE Exit("StoreError")
  /\ UNCHANGED <<record, startRecord, tag, bump, current, ops>>

\* main: new_version.is_valid()
CheckTag ==
  /\ pc = "check_tag"
  /\ IF is_valid(tag) THEN pc' = "validate" /\ UNCHANGED verdict
     ELSE Exit("MalformedVersion")
  /\ UNCHANGED <<record, startRecord, tag, bump, current, ops>>

\* a transition check whose outcome is ignored
ValidateChangeUngated ==
  /\ pc = "validate"
  /\ pc' = "dotenv"
  /\ UNCHANGED <<record, startRecord, tag, bump, current, verdict, ops>>

\* main: SemVersion.validate_semver_change(current_version, new_version, args)
ValidateChange ==
  /\ pc = "validate"
  /\ LET v == validate_semver_change(current, tag, bump)
     IN IF v = "Ok" THEN pc' = "dotenv" /\ UNCHANGED verdict ELSE Exit(v)
  /\ UNCHANGED <<record, startRecord, tag, bump, current, ops>>

\* Dotenv.load_dotenv: build.env is found or the run exits
LoadDotenv ==
  /\ pc = "dotenv"
  /\ \E found \in BOOLEAN :
       /\ ops' = Append(ops, Op("dotenv", found))
       /\ IF found THEN pc' = "creds" /\ UNCHANGED verdict
          ELSE Exit("CredentialError")
  /\ UNCHANGED <<record, startRecord, tag, bump, current>>

\* DockerhubCreds.get_dockerhub_creds: both variables are set or the run exits
GetDockerhubCreds ==
  /\ pc = "creds"
  /\ \E present \in BOOLEAN :
       /\ ops' = Append(ops, Op("creds", present))
       /\ IF present THEN pc' = "login" /\ UNCHANGED verdict
          ELSE Exit("CredentialError")
  /\ UNCHANGED <<record, startRecord, tag, bump, current>>

\* Terminal.login: docker login returns 0 or the run exits
Login ==
  /\ pc = "login"
  /\ \E ok \in BOOLEAN :
       /\ ops' = Append(ops, Op("login", ok))
       /\ IF ok THEN pc' = "build" /\ UNCHANGED verdict
          ELSE Exit("ExternalToolError")
  /\ UNCHANGED <<record, startRecord, tag, bump, current>>

\* a build whose return code is ignored
BuildUngated ==
  /\ pc = "build"
  /\ \E ok \in BOOLEAN :
       /\ ops' = Append(ops, Op("build", ok))
       /\ pc' = "show"
  /\ UNCHANGED <<record, startRecord, tag, bump, current, verdict>>

\* Terminal.build: the Dockerfile and the build context are looked up first
\* (the run exits when one is missing), then docker build returns 0 or the
\* run exits
Build ==
  /\ pc = "build"
  /\ \E found \in BOOLEAN :
       IF ~found THEN Exit("PathNotFound") /\ UNCHANGED ops
       ELSE \E ok \in BOOLEAN :
              /\ ops' = Append(ops, Op("build", ok))
              /\ IF ok THEN pc' = "show" /\ UNCHANGED verdict
                 ELSE Exit("ExternalToolError")
  /\ UNCHANGED <<record, startRecord, tag, bump, current>>

\* Terminal.show_image: docker image ls runs with check=True (a non-zero
\* return raises and ends the run); grep then filters its output, and the
\* return code of grep is not looked at
ShowImage ==
  /\ pc = "show"
  /\ \E listed \in BOOLEAN :
       IF ~listed
         THEN ops' = Append(ops, Op("ls", FALSE)) /\ Exit("ExternalToolError")
         ELSE \E matched \in BOOLEAN :
                /\ ops' = ops \o <<Op("ls", TRUE), Op("grep", matched)>>
                /\ pc' = "push"
                /\ UNCHANGED verdict
  /\ UNCHANGED <<record, startRecord, tag, bump, current>>

\* a push whose return code is ignored
PushUngated ==
  /\ pc = "push"
  /\ \E ok \in BOOLEAN :
       /\ ops' = Append(ops, Op("push", ok))
       /\ pc' = "overwrite"
  /\ UNCHANGED <<record, startRecord, tag, bump, current, verdict>>

\* Terminal.push: docker push returns 0 or the run exits
Push ==
  /\ pc = "push"
  /\ \E ok \in BOOLEAN :
       /\ ops' = Append(ops, Op("push", ok))
       /\ IF ok THEN pc' = "overwrite" /\ UNCHANGED verdict
          ELSE Exit("ExternalToolError")
  /\ UNCHANGED <<record, startRecord, tag, bump, current>>

\* SemVerFile.overwrite_version(new_version), then main returns
OverwriteVersion ==
  /\ pc = "overwrite"
  /\ IF ~is_valid(tag) THEN Exit("MalformedVersion") /\ UNCHANGED <<record, ops>>
     ELSE IF ~record.exists THEN Exit("StoreError") /\ UNCHANGED <<record, ops>>
     ELSE /\ record' = File(tag)
          /\ ops' = Append(ops, Op("write", TRUE))
          /\ Exit("Released")
  /\ UNCHANGED <<startRecord, tag, bump, current>>

Next ==
  \/ GetCmdArgs
  \/ GetCurrentSemVer
  \/ CheckCurrent
  \/ CheckTag
  \/ ValidateChange
  \/ LoadDotenv
  \/ GetDockerhubCreds
  \/ Login
  \/ Build
  \/ ShowImage
  \/ Push
  \/ OverwriteVersion

Spec == Init /\ [][Next]_vars

(***************************************************************************)
(* SpecParse: is_valid applied to every raw string of at most MaxLen        *)
(* characters over ParseAlphabet                                            *)
(***************************************************************************)
ParseAlphabet == {"0", "1", ".", "-", " ", NL, UDigit}

RawStrings == UNION {[1..n -> ParseAlphabet] : n \in 0..MaxLen}

InitParse ==
  /\ tag \in RawStrings
  /\ record = NoFile
  /\ startRecord = NoFile
  /\ bump = "patch"
  /\ current = <<>>
  /\ pc = "parse"
  /\ verdict = "none"
  /\ ops = <<>>

\* main: new_version = SemVersion(args.tag); new_version.is_valid()
IsValidStep ==
  /\ pc = "parse"
  /\ pc' = "parsed"
  /\ verdict' = IF is_valid(tag) THEN "Ok" ELSE "MalformedVersion"
  /\ UNCHANGED <<record, startRecord, tag, bump, current, ops>>

SpecParse == InitParse /\ [][IsValidStep]_vars

(***************************************************************************)
(* SpecPolicy: validate_semver_change applied to every pair of accepted     *)
(* versions with components in PolicyComps, the current one read from a     *)
(* record with or without a final newline, and every bump kind              *)
(***************************************************************************)
PolicyComps == (0..MaxComp) \cup {BigComp}

InitPolicy ==
  /\ current \in {r \in RenderAll(PolicyComps) \cup {t \o <<NL>> : t \in RenderAll(PolicyComps)} :
                    is_valid(r)}
  /\ tag \in {r \in RenderAll(PolicyComps) : is_valid(r)}
  /\ bump \in Bumps
  /\ record = File(current)
  /\ startRecord = record
  /\ pc = "policy"
  /\ verdict = "none"
  /\ ops = <<>>

\* main: SemVersion.validate_semver_change(current_version, new_version, args)
ValidateStep ==
  /\ pc = "policy"
  /\ pc' = "checked"
  /\ verdict' = validate_semver_change(current, tag, bump)
  /\ UNCHANGED <<record, startRecord, tag, bump, current, ops>>

SpecPolicy == InitPolicy /\ [][ValidateStep]_vars

(***************************************************************************)
(* Properties                                                               *)
(***************************************************************************)
\* the integer components of the current and of the proposed version
CV == parse(current).v
NV == parse(tag).v

\* whether the external operation name was invoked in this run with result ok
Did(name, ok) == \E i \in 1..Len(ops) : ops[i] = Op(name, ok)

\* the three validation gates of this run have passed: the record holds one
\* line that is_valid accepts, is_valid accepts the tag, and the transition
\* check returned for the declared bump kind
GatesPassed ==
  /\ startRecord.exists
  /\ Len(ReadLines(startRecord.text)) = 1
  /\ current = ReadLines(startRecord.text)[1]
  /\ is_valid(current)
  /\ is_valid(tag)
  /\ bump \in Bumps
  /\ validate_semver_change(current, tag, bump) = "Ok"

\* C1: the version record is overwritten only after the push has succeeded:
\* while a run is under way the record is the one the run started with; a run
\* that ended without a successful push leaves it as it was; a run whose push
\* succeeded leaves exactly the requested tag in it.
C1_RecordWrittenOnlyAfterPush ==
  /\ pc # "exited" => record = startRecord
  /\ (pc = "exited" /\ ~Did("push", TRUE)) => record = startRecord
  /\ (pc = "exited" /\ Did("push", TRUE)) => (record = File(tag) /\ verdict = "Released")
  /\ (pc = "exited" /\ verdict # "Released") => record = startRecord

\* C1 witness: a run has ended after a successful push and the record, which
\* held another text before, now holds the requested tag.
C1_Witness ==
  /\ pc = "exited"
  /\ Did("push", TRUE)
  /\ record = File(tag)
  /\ record # startRecord

\* C2: the credential lookup, every container-tool operation and the record
\* write happen only in a run whose three validation gates have passed; a run
\* in which one of them failed performs none of them.
C2_GatesBeforeExternalSteps ==
  /\ ops # <<>> => GatesPassed
  /\ record # startRecord => GatesPassed
  /\ (pc = "exited" /\ verdict \in {"BadArgs", "StoreError", "MalformedVersion", "NoChange",
                                    "InvalidBumpPreconditions", "NonSequentialIncrement"})
       => (ops = <<>> /\ record = startRecord)

\* C2 witness: the login has been invoked in a run whose gates have passed.
C2_Witness == (Did("login", TRUE) \/ Did("login", FALSE)) /\ GatesPassed

\* the claim's reading of a version text: exactly three components between
\* dots, each the digit 0 or digits that do not start with 0, nothing else
WellFormedComponent(p) ==
  /\ p # <<>>
  /\ \A i \in 1..Len(p) : IsDigit(p[i])
  /\ p[1] \in AsciiDigits
  /\ p[1] = "0" => Len(p) = 1

WellFormed(s) ==
  /\ Len(Split(s)) = 3
  /\ \A i \in 1..3 : WellFormedComponent(Split(s)[i])

\* C3: version validation accepts a raw string if and only if it is exactly
\* three dot-separated components, each 0 or a digit sequence without a
\* leading zero, with nothing before or after (no trailing newline).
C3_AcceptsExactlyWellFormed ==
  pc = "parsed" => (verdict = "Ok" <=> WellFormed(tag))

\* C4: a patch transition between differing versions whose major or minor
\* components differ is rejected with InvalidBumpPreconditions.
C4_PatchKeepsMajorAndMinor ==
  (pc = "checked" /\ bump = "patch" /\ CV # NV /\ ~(CV[1] = NV[1] /\ CV[2] = NV[2]))
    => verdict = "InvalidBumpPreconditions"

\* C5: two accepted versions whose three integer components are equal fail the
\* transition check with NoChange, for every bump kind.
C5_EqualComponentsNoChange ==
  (pc = "checked" /\ CV = NV) => verdict = "NoChange"

\* the preconditions of a bump kind as the transition policy states them
StatedPre(kind, c, n) ==
  CASE kind = "patch" -> c[1] = n[1] /\ c[2] = n[2]
    [] kind = "minor" -> c[1] = n[1] /\ n[3] = 0
    [] kind = "major" -> c[2] = 0 /\ n[3] = 0

\* the component a bump kind increments
Bumped(kind) == CASE kind = "patch" -> 3 [] kind = "minor" -> 2 [] kind = "major" -> 1

\* C6: for differing versions that meet the preconditions of the declared bump
\* kind, the transition check succeeds if and only if the bumped component of
\* the proposed version is that of the current version plus one, and fails
\* with NonSequentialIncrement otherwise.
C6_SequentialIncrement ==
  (pc = "checked" /\ CV # NV /\ StatedPre(bump, CV, NV))
    => /\ verdict = "Ok" <=> NV[Bumped(bump)] = CV[Bumped(bump)] + 1
       /\ verdict \in {"Ok", "NonSequentialIncrement"}

\* C6 witness: a patch transition that meets its preconditions and skips a
\* patch number has been rejected as non-sequential.
C6_Witness ==
  /\ pc = "checked"
  /\ bump = "patch"
  /\ StatedPre(bump, CV, NV)
  /\ NV[3] = CV[3] + 2
  /\ verdict = "NonSequentialIncrement"

\* C7: for a major bump between differing versions the preconditions are
\* exactly current.minor = 0 and proposed.patch = 0: the check fails with
\* InvalidBumpPreconditions when one is false, and when both hold its result
\* depends only on proposed.major = current.major + 1.
C7_MajorPreconditions ==
  (pc = "checked" /\ bump = "major" /\ CV # NV)
    => IF CV[2] = 0 /\ NV[3] = 0
         THEN verdict = (IF NV[1] = CV[1] + 1 THEN "Ok" ELSE "NonSequentialIncrement")
         ELSE verdict = "InvalidBumpPreconditions"

\* C7 witness: a major bump from a version with a non-zero patch to a version
\* with a non-zero minor has been accepted.
C7_Witness ==
  /\ pc = "checked"
  /\ bump = "major"
  /\ CV[2] = 0 /\ CV[3] # 0
  /\ NV[2] # 0 /\ NV[3] = 0
  /\ verdict = "Ok"

\* C8: for a minor bump between differing versions the preconditions are
\* exactly current.major = proposed.major and proposed.patch = 0: the check
\* fails with InvalidBumpPreconditions when one is false, and otherwise its
\* result depends only on the two minor components, never on current.patch.
C8_MinorPreconditions ==
  (pc = "checked" /\ bump = "minor" /\ CV # NV)
    => IF CV[1] = NV[1] /\ NV[3] = 0
         THEN verdict = (IF NV[2] = CV[2] + 1 THEN "Ok" ELSE "NonSequentialIncrement")
         ELSE verdict = "InvalidBumpPreconditions"

\* C8 witness: a minor bump from a version with a non-zero patch has been
\* accepted.
C8_Witness ==
  /\ pc = "checked"
  /\ bump = "minor"
  /\ CV[3] # 0
  /\ NV[2] = CV[2] + 1
  /\ verdict = "Ok"

\* the order in which a run performs its external steps
FixedOrder == <<"dotenv", "creds", "login", "build", "ls", "grep", "push", "write">>

InFixedOrder ==
  /\ Len(ops) <= Len(FixedOrder)
  /\ \A i \in 1..Len(ops) : ops[i].op = FixedOrder[i]

\* a failed step is the last step of its run, and the run has ended in
\* failure with the record untouched
FailedLast(i) ==
  /\ i = Len(ops)
  /\ pc = "exited"
  /\ verdict # "Released"
  /\ record = startRecord

\* C9 as stated: the external operations run in the fixed order, each at most
\* once, and every one of them, the filter of the listing included, ends the
\* run when it fails.
C9_EveryStepIsHardGate ==
  /\ InFixedOrder
  /\ \A i \in 1..Len(ops) : ~ops[i].ok => FailedLast(i)

\* C9 amended: the external operations run in the fixed order, each at most
\* once, and login, build, the image listing and push each end the run when
\* they fail; the return code of the grep filter is not a gate.
C9_HardGatesExceptFilter ==
  /\ InFixedOrder
  /\ \A i \in 1..Len(ops) : (~ops[i].ok /\ ops[i].op # "grep") => FailedLast(i)

\* C9 witness: the filter returned non-zero, and the run went on to push and
\* to overwrite the record.
C9_Witness ==
  /\ Did("grep", FALSE)
  /\ Did("push", TRUE)
  /\ pc = "exited"
  /\ verdict = "Released"
  /\ record = File(tag)

\* (major, minor, patch) lexicographic order
VersionLess(a, b) ==
  \/ a[1] < b[1]
  \/ a[1] = b[1] /\ a[2] < b[2]
  \/ a[1] = b[1] /\ a[2] = b[2] /\ a[3] < b[3]

\* C10: every run that overwrites the record replaces it with a version
\* strictly greater than the one it held.
C10_RecordOnlyMovesForward ==
  (pc = "exited" /\ record # startRecord) => VersionLess(CV, parse(record.text).v)

====
